---- MODULE Spec2Model ----
(***************************************************************************)
(* Model of software/Arduino_code/weili_cfcCtxA_fiber_20240604.ino: the    *)
(* one-shock contextual fear conditioning sketch.  The sketch is modelled  *)
(* statement by statement: pc holds the source line of the statement that  *)
(* runs next, and every statement of setup(), loop() and shockDeliver() is *)
(* one action.  The levels of the two input pins belong to the             *)
(* environment and may change between any two statements.  Time passes     *)
(* only inside delay(): millis is the sum of the delays executed since     *)
(* power-on or reset.  One run delays 243500 ms in all, far below the      *)
(* 2^32 at which the unsigned long of millis() wraps, so millis is kept    *)
(* as a plain integer.                                                     *)
(***************************************************************************)
EXTENDS Integers, Sequences, FiniteSets

\* ---- globals of the sketch (lines 10-22) ----
ethoPin == 12
shockPin == 10
ledPin == 13
buttonPin == 11
fiberPin == 7

preShockDelay == 180000
postShockInt == 60000
shockDur == 2000

\* the two literal marker pulses on the fiber pin (lines 49 and 66)
startPulse == 1000
endPulse == 500

HIGH == "HIGH"
LOW == "LOW"

Pins == {ethoPin, shockPin, ledPin, buttonPin, fiberPin}
InputPins == {ethoPin, buttonPin}
OutputPins == {shockPin, ledPin, fiberPin}

VARIABLES
    pc,         \* source line of the next statement ("main": between two calls of loop())
    hasTrig,    \* the global int hasTrig
    mode,       \* pin -> "INPUT" | "OUTPUT" | "INPUT_PULLUP"
    level,      \* pin -> LOW | HIGH: what digitalRead sees / what digitalWrite drove
    millis,     \* milliseconds spent in delay() since power-on or reset
    serial,     \* the lines written to Serial, in order
    shockCount, \* history: number of digitalWrite(shockPin, HIGH) executed in this run
    trigCount,  \* history: number of times the condition of line 45 was true in this run
    shockOnAt   \* history: millis at the last digitalWrite(shockPin, HIGH)

vars == <<pc, hasTrig, mode, level, millis, serial, shockCount, trigCount, shockOnAt>>

hist == <<shockCount, trigCount, shockOnAt>>

\* ---- the state after power-on: globals initialised, setup() about to run ----
PowerOn(lv) ==
    /\ pc = "27"
    /\ hasTrig = 0
    /\ mode = [p \in Pins |-> "INPUT"]
    /\ level = lv
    /\ millis = 0
    /\ serial = << >>
    /\ shockCount = 0
    /\ trigCount = 0
    /\ shockOnAt = 0

Init ==
    \E b \in {LOW, HIGH}, e \in {LOW, HIGH} :
        PowerOn([p \in Pins |-> IF p = buttonPin THEN b ELSE IF p = ethoPin THEN e ELSE LOW])

\* ---- the Arduino primitives the sketch calls ----
PinMode(from, to, pin, m) ==
    /\ pc = from
    /\ pc' = to
    /\ mode' = [mode EXCEPT ![pin] = m]
    /\ UNCHANGED <<hasTrig, level, millis, serial, hist>>

DigitalWrite(from, to, pin, val) ==
    /\ pc = from
    /\ pc' = to
    /\ level' = [level EXCEPT ![pin] = val]
    /\ UNCHANGED <<hasTrig, mode, millis, serial>>

Delay(from, to, ms) ==
    /\ pc = from
    /\ pc' = to
    /\ millis' = millis + ms
    /\ UNCHANGED <<hasTrig, mode, level, serial, hist>>

SerialLine(from, to, line) ==
    /\ pc = from
    /\ pc' = to
    /\ serial' = Append(serial, line)
    /\ UNCHANGED <<hasTrig, mode, level, millis, hist>>

DigitalRead(pin) == level[pin]

\* ---- setup(), lines 25-40 ----
setup27 == PinMode("27", "29", shockPin, "OUTPUT")
setup29 == PinMode("29", "30", fiberPin, "OUTPUT")
setup30 == PinMode("30", "31", ledPin, "OUTPUT")
setup31 == PinMode("31", "34", buttonPin, "INPUT_PULLUP")
setup34 == SerialLine("34", "35", <<"Program starting">>)
setup35 == SerialLine("35", "36", <<"CFC-A One-Shock">>)
setup36 == SerialLine("36", "37", <<"Total Time = 242sec">>)
setup37 == SerialLine("37", "38", <<"Pre-Shock Time = ", preShockDelay>>)
setup38 == SerialLine("38", "39", <<"Shock Duration = ", shockDur>>)
setup39 == SerialLine("39", "main", <<"Waiting for ethovision input...">>)

\* ---- loop(), lines 43-71 ----
\* the runtime calls loop() over and over
mainCallLoop ==
    /\ pc = "main"
    /\ pc' = "45"
    /\ UNCHANGED <<hasTrig, mode, level, millis, serial, hist>>

\* line 45 without the hasTrig latch
TrigCondNoLatch == DigitalRead(buttonPin) = LOW

\* the condition of the if of line 45
TrigCond == DigitalRead(buttonPin) = LOW /\ hasTrig = 0

loop45 ==
    /\ pc = "45"
    /\ IF TrigCond
       THEN /\ pc' = "46"
            /\ trigCount' = trigCount + 1
       ELSE /\ pc' = "main"
            /\ UNCHANGED trigCount
    /\ UNCHANGED <<hasTrig, mode, level, millis, serial, shockCount, shockOnAt>>

loop46 == SerialLine("46", "48", <<"button trigger IN, millis=", millis>>)
loop48 == DigitalWrite("48", "49", fiberPin, HIGH) /\ UNCHANGED hist
loop49 == Delay("49", "50", startPulse)
loop50 == DigitalWrite("50", "52", fiberPin, LOW) /\ UNCHANGED hist
loop52 == Delay("52", "55", preShockDelay)

\* line 55 calls shockDeliver(), which returns to line 56
loop55 ==
    /\ pc = "55"
    /\ pc' = "75"
    /\ UNCHANGED <<hasTrig, mode, level, millis, serial, hist>>

loop56 == DigitalWrite("56", "62", fiberPin, LOW) /\ UNCHANGED hist
loop62 == Delay("62", "63", postShockInt)
loop63 == SerialLine("63", "65", <<"session END, millis=", millis>>)
loop65 == DigitalWrite("65", "66", fiberPin, HIGH) /\ UNCHANGED hist
loop66 == Delay("66", "67", endPulse)
loop67 == DigitalWrite("67", "69", fiberPin, LOW) /\ UNCHANGED hist

loop69 ==
    /\ pc = "69"
    /\ pc' = "main"
    /\ hasTrig' = 1
    /\ UNCHANGED <<mode, level, millis, serial, hist>>

\* ---- shockDeliver(), lines 74-88 ----
shockDeliver75 == DigitalWrite("75", "76", ledPin, HIGH) /\ UNCHANGED hist
shockDeliver76 == SerialLine("76", "78", <<"SHOCK OUT, millis=", millis>>)

shockDeliver78 ==
    /\ DigitalWrite("78", "79", shockPin, HIGH)
    /\ shockCount' = shockCount + 1
    /\ shockOnAt' = millis
    /\ UNCHANGED trigCount

shockDeliver79 == DigitalWrite("79", "81", fiberPin, HIGH) /\ UNCHANGED hist
shockDeliver81 == Delay("81", "82", shockDur)
\* line 82 leaving the shock on
shockDeliver82StaysOn == DigitalWrite("82", "83", shockPin, HIGH) /\ UNCHANGED hist

shockDeliver82 == DigitalWrite("82", "83", shockPin, LOW) /\ UNCHANGED hist
shockDeliver83 == DigitalWrite("83", "84", fiberPin, HIGH) /\ UNCHANGED hist
shockDeliver84 == DigitalWrite("84", "86", ledPin, LOW) /\ UNCHANGED hist
shockDeliver86 == SerialLine("86", "56", <<"SHOCK off, millis=", millis>>)

\* ---- the environment ----
\* the level on an input pin changes (button pressed or released, EthoVision
\* TTL raised or lowered)
InputChange ==
    \E p \in InputPins :
        /\ level' = [level EXCEPT ![p] = IF level[p] = LOW THEN HIGH ELSE LOW]
        /\ UNCHANGED <<pc, hasTrig, mode, millis, serial, hist>>

\* the RESET button: the board restarts, the globals are initialised again and
\* setup() runs; the input pins keep the level the environment drives
Reset ==
    /\ pc' = "27"
    /\ hasTrig' = 0
    /\ mode' = [p \in Pins |-> "INPUT"]
    /\ level' = [p \in Pins |-> IF p \in InputPins THEN level[p] ELSE LOW]
    /\ millis' = 0
    /\ serial' = << >>
    /\ shockCount' = 0
    /\ trigCount' = 0
    /\ shockOnAt' = 0

Setup ==
    \/ setup27 \/ setup29 \/ setup30 \/ setup31 \/ setup34
    \/ setup35 \/ setup36 \/ setup37 \/ setup38 \/ setup39

Loop ==
    \/ mainCallLoop \/ loop45 \/ loop46 \/ loop48 \/ loop49 \/ loop50 \/ loop52
    \/ loop55 \/ loop56 \/ loop62 \/ loop63 \/ loop65 \/ loop66 \/ loop67 \/ loop69

ShockDeliver ==
    \/ shockDeliver75 \/ shockDeliver76 \/ shockDeliver78 \/ shockDeliver79
    \/ shockDeliver81 \/ shockDeliver82 \/ shockDeliver83 \/ shockDeliver84
    \/ shockDeliver86

\* one statement of the sketch
Sketch == Setup \/ Loop \/ ShockDeliver

Next == Sketch \/ InputChange \/ Reset

Spec == Init /\ [][Next]_vars

\* ---- properties ----
\* the statements at which the shock pin is HIGH: after line 78, up to line 82
ShockOnLines == {"79", "81", "82"}

\* the statements of a session that come after the call of shockDeliver()
PostShockLines == {"56", "62", "63", "65", "66", "67", "69"}

\* C5: one-shock protocol.  In every run the shock pin is driven HIGH at most
\* once; never before a trigger was accepted; exactly once in a run whose
\* session has passed shockDeliver(); and the pin is HIGH only between lines 78
\* and 82, no time passing before the delay(shockDur) and exactly shockDur
\* having passed when line 82 drives it LOW again.
C5_OneShock ==
    /\ shockCount <= 1
    /\ (trigCount = 0 => shockCount = 0 /\ level[shockPin] = LOW)
    /\ (level[shockPin] = HIGH <=> pc \in ShockOnLines)
    /\ (pc \in {"79", "81"} => millis = shockOnAt)
    /\ (pc = "82" => millis - shockOnAt = shockDur)
    /\ (pc \in PostShockLines \/ hasTrig = 1 => shockCount = 1)

\* a session has completed: the shock was given once and is off again
C5_Witness == hasTrig = 1 /\ shockCount = 1 /\ level[shockPin] = LOW /\ millis - shockOnAt > shockDur

\* C6: a session runs at most once per reset.  The trigger condition is true at
\* most once in a run (a trigger during or after the session starts nothing),
\* and once hasTrig is 1 every step other than a reset keeps hasTrig at 1, keeps
\* every output pin at its level, prints nothing and stays in the idle
\* iteration of loop().
C6_SessionOncePerReset ==
    /\ [](trigCount <= 1)
    /\ [][(hasTrig = 1 /\ ~Reset) =>
            /\ hasTrig' = 1
            /\ \A p \in OutputPins : level'[p] = level[p]
            /\ serial' = serial
            /\ trigCount' = trigCount
            /\ pc' \in {"main", "45"}]_vars

\* after a completed session, line 45 is about to run with the button held down
C6_Witness == hasTrig = 1 /\ pc = "45" /\ level[buttonPin] = LOW /\ trigCount = 1

\* a run of the sketch without reset; the processor never stops executing the
\* sketch, so its statements are weakly fair
NoResetNext == Sketch \/ InputChange

FairRun == Init /\ [][NoResetNext]_vars /\ WF_vars(Sketch)

\* C7: the EthoVision input starts the shock countdown: if ethoPin is HIGH
\* from some point on, a shock is eventually delivered.
C7_EthoTriggerDeliversShock ==
    <>[](level[ethoPin] = HIGH) => <>(shockCount >= 1)

\* C8: the total session time is 242 seconds: the "session END" line is
\* printed 242000 ms of delay after the "button trigger IN" line.
C8_TotalTime242 ==
    \A i, j \in DOMAIN serial :
        (serial[i][1] = "button trigger IN, millis=" /\ serial[j][1] = "session END, millis=")
            => serial[j][2] - serial[i][2] = 242000

====
